---- MODULE Spec2Model ----
(***************************************************************************)
(* The webmesh helper daemon (internal/daemon): the HTTP handlers of the   *)
(* daemon Server around its single session slot `store`, the connection    *)
(* factory newStore, and the client facade's mode selection in NewClient.  *)
(*                                                                         *)
(* Each worker is one goroutine of net/http serving one request at a time. *)
(* A handler's locals (req, st, the engine calls it made) belong to its    *)
(* worker and are gone when it returns; `last` keeps the record of the     *)
(* request that was answered last.  The mesh engine (store.Store) is an    *)
(* opaque dependency: every call on it returns one of the outcomes its     *)
(* signature allows.                                                       *)
(***************************************************************************)
EXTENDS Integers, Sequences, FiniteSets, TLC

\* ---------------------------------------------------------------- bounds
NumWorkers == 2
MaxRequests == 3
\* goroutines of the application calling the facade
NumCallers == 2
MaxConnects == 2
MaxQueued == 2
MaxLoads == 3

\* ------------------------------------------------------- program constants
DefaultConnectTimeout == 30

Workers == 1..NumWorkers
Handles == 1..MaxRequests
Nil == 0

Paths == {"/connect", "/disconnect", "/interface-metrics"}
Methods == {"POST", "GET"}
\* connectTimeout values (seconds) a request body may carry
ConnectTimeouts == {-1, 0, 5}
\* seconds after Open at which the engine signals ready
ReadyDelays == {1, 10}
\* Close returns nil, or an error; an engine whose Close returned an error
\* may or may not have released its resources
CloseOutcomes == {"ok", "err_open", "err_closed"}

VARIABLES
    store,        \* Server.store: Nil or the handle in the session slot
    mu,           \* Server.mu: 0 or the worker holding the lock
    engine,       \* per handle: "none" | "created" | "open" | "closed"
    nextHandle,   \* next handle store.New will return
    closeCalls,   \* per handle: number of Close invocations
    pc,           \* per worker: position in the handler
    req,          \* per worker: the request being served
    cur,          \* per worker: newStore's local `st` (Nil if none)
    wait,         \* per worker: ready delay / client-gone of the engine opened
    ops,          \* per worker: engine calls made so far by the handler
    slotAtLock,   \* per worker: value of store when the lock was acquired
    budget,       \* requests accepted so far
    last,         \* record of the request answered last
    settled,      \* value of store left by the last handler that returned
    trail,        \* last successful Connect and what was handled since
    installed,    \* handles that have been in the session slot
    phase,        \* Run: "serving" | "shutdown" | "exited"
    exitCode,     \* exit status of the daemon process once it has exited
    atShutdown,   \* the slot and its Close count when Shutdown was called
    proc,         \* NewClient: the process environment
    hasClient,    \* NewClient has returned a client
    noDaemon,     \* client.noDaemon
    user,         \* newStoreOptions: the user entry the profile resolves to
    cluster,      \* newStoreOptions: the cluster entry the profile resolves to
    storeOpts,    \* newStoreOptions: the engine options built
    built,        \* newStoreOptions has returned
    cstore,       \* client.store: Nil or the handle of the in-process session
    connected,    \* client.connected
    cres,         \* the facade call made last and what it returned
    ncalls,       \* facade calls made so far
    pair,         \* an in-process and a relay facade driven by the same calls
    cmu,          \* client.mu: 0 or the caller holding the facade lock
    caller,       \* per caller: the facade method it is in and its position
    host,         \* the machine and the flags the daemon process runs with
    sock,         \* the file at the well-known socket path
    run,          \* the daemon process: Run and its ListenAndServe goroutine
    gui,          \* App: the connect switch, its listener and connect tasks
    conf,         \* client.configPath and client.config, and the last load
    chk           \* an error value and what IsNotConnected did with it

serverVars == <<store, mu, engine, nextHandle, closeCalls>>
workerVars == <<pc, req, cur, wait, ops, slotAtLock, budget>>
ghostVars == <<last, settled, trail, installed>>
runVars == <<phase, exitCode, atShutdown>>
modeVars == <<proc, hasClient, noDaemon>>
optVars == <<user, cluster, storeOpts, built>>
facadeVars == <<cstore, connected, cres, ncalls>>
procVars == <<host, sock, run>>
uiVars == <<gui, conf, chk>>
extVars == <<pair, cmu, caller, procVars, uiVars>>
clientVars == <<modeVars, optVars, facadeVars, extVars>>
vars == <<serverVars, workerVars, ghostVars, runVars, clientVars>>

\* ------------------------------------------------------------ error values
\* An error is its chain of messages; err.Error() joins them with ": ".
ErrNotConnected == <<"not connected">>

Errorf(prefix, err) == <<prefix>> \o err

CloseError == <<"close error">>
DeadlineExceeded == <<"context deadline exceeded">>
Canceled == <<"context canceled">>

NoResponse == [status |-> 0, body |-> "none", msg |-> <<>>]

\* Server.returnOK
returnOK == [status |-> 200, body |-> "ok", msg |-> <<>>]

\* Server.returnError
returnError(err) == [status |-> 500, body |-> "message", msg |-> err]

NoRequest == [path |-> "none", method |-> "none", timeout |-> 0]
NoWait == [delay |-> 0, gone |-> FALSE]
NoPred == [h |-> Nil, clean |-> TRUE]
NoLast ==
    [req |-> NoRequest, resp |-> NoResponse, ops |-> <<>>,
     slotAtLock |-> Nil, slotAtReturn |-> Nil, cur |-> Nil, wait |-> NoWait,
     pred |-> NoPred]

\* --------------------------------------------------------- engine effects
\* store.Store.Close as seen by the daemon
CloseEffect(eng, h, out) ==
    IF out = "err_open" THEN eng ELSE [eng EXCEPT ![h] = "closed"]

\* --------------------------------------------------------- newStoreOptions
\* Mesh.JoinTimeout handed to the engine, in seconds
newStoreOptions(opts) ==
    [JoinTimeout |-> IF opts.timeout <= 0 THEN DefaultConnectTimeout
                     ELSE opts.timeout]

\* seconds given to context.WithTimeout in newStore
WaitBound(opts) == opts.timeout

\* CtxErr as it would be if the wait ran under a context of its own, not
\* one derived from the request's.
CtxErr_Detached(opts, w) ==
    IF WaitBound(opts) <= 0 THEN DeadlineExceeded
    ELSE IF w.delay < WaitBound(opts) THEN <<>>
    ELSE DeadlineExceeded

\* ctx.Err() after <-st.ReadyNotify(ctx): nil (<<>>) when the engine was
\* ready before the deadline and before the client went away
CtxErr(opts, w) ==
    IF WaitBound(opts) <= 0 THEN DeadlineExceeded
    ELSE IF w.gone THEN Canceled
    ELSE IF w.delay < WaitBound(opts) THEN <<>>
    ELSE DeadlineExceeded

\* the credentials newStoreOptions attaches for the resolved user u, as
\* they would be if the three types excluded one another by precedence.
Auth_Precedence(u) ==
    LET basic == u.BasicAuthPassword # "" /\ u.BasicAuthUsername # ""
        ldap == u.LDAPPassword # "" /\ u.LDAPUsername # ""
        mtls == u.ClientKeyData # "" /\ u.ClientCertificateData # ""
    IN  [Basic |-> IF basic
                   THEN {[Username |-> u.BasicAuthUsername,
                          Password |-> u.BasicAuthPassword]}
                   ELSE {},
         LDAP |-> IF ~basic /\ ldap
                  THEN {[Username |-> u.LDAPUsername,
                         Password |-> u.LDAPPassword]}
                  ELSE {},
         MTLS |-> IF ~basic /\ ~ldap /\ mtls
                  THEN {[CertData |-> u.ClientCertificateData,
                         KeyData |-> u.ClientKeyData]}
                  ELSE {}]

\* storeOpts.Auth as newStoreOptions fills it for the resolved user u:
\* three separate if statements, one per credential type
Auth(u) ==
    [Basic |-> IF u.BasicAuthPassword # "" /\ u.BasicAuthUsername # ""
               THEN {[Username |-> u.BasicAuthUsername,
                      Password |-> u.BasicAuthPassword]}
               ELSE {},
     LDAP |-> IF u.LDAPPassword # "" /\ u.LDAPUsername # ""
              THEN {[Username |-> u.LDAPUsername,
                     Password |-> u.LDAPPassword]}
              ELSE {},
     MTLS |-> IF u.ClientKeyData # "" /\ u.ClientCertificateData # ""
              THEN {[CertData |-> u.ClientCertificateData,
                     KeyData |-> u.ClientKeyData]}
              ELSE {}]

\* storeOpts.TLS as it would be if every cluster field were copied whether
\* or not the cluster is insecure.
TLS_Copied(c) ==
    [Insecure |-> c.Insecure,
     CAData |-> c.CertificateAuthorityData,
     InsecureSkipVerify |-> c.TLSSkipVerify,
     VerifyChainOnly |-> c.TLSVerifyChainOnly]

\* storeOpts.TLS as newStoreOptions fills it for the resolved cluster c,
\* starting from the zero TLS options: an insecure cluster sets Insecure
\* and nothing else, any other cluster has its three fields copied
TLS(c) ==
    IF c.Insecure
    THEN [Insecure |-> TRUE, CAData |-> "",
          InsecureSkipVerify |-> FALSE, VerifyChainOnly |-> FALSE]
    ELSE [Insecure |-> FALSE,
          CAData |-> IF c.CertificateAuthorityData # ""
                     THEN c.CertificateAuthorityData ELSE "",
          InsecureSkipVerify |-> IF c.TLSSkipVerify THEN TRUE ELSE FALSE,
          VerifyChainOnly |-> IF c.TLSVerifyChainOnly THEN TRUE ELSE FALSE]

\* ------------------------------------------------------------------- Init
ServerInit ==
    /\ store = Nil
    /\ mu = 0
    /\ engine = [h \in Handles |-> "none"]
    /\ nextHandle = 1
    /\ closeCalls = [h \in Handles |-> 0]
    /\ pc = [r \in Workers |-> "idle"]
    /\ req = [r \in Workers |-> NoRequest]
    /\ cur = [r \in Workers |-> Nil]
    /\ wait = [r \in Workers |-> NoWait]
    /\ ops = [r \in Workers |-> <<>>]
    /\ slotAtLock = [r \in Workers |-> Nil]
    /\ budget = 0
    /\ last = NoLast
    /\ settled = Nil
    /\ trail = [lastOK |-> Nil, disc |-> FALSE, abort |-> FALSE]
    /\ installed = {}
    /\ phase = "serving"
    /\ exitCode = 0
    /\ atShutdown = [slot |-> Nil, calls |-> 0]

\* config.User with no field set; store.Options with no credential (each
\* pointer of Auth is the empty set when nil, else the set of its struct)
NoUser ==
    [BasicAuthUsername |-> "", BasicAuthPassword |-> "",
     LDAPUsername |-> "", LDAPPassword |-> "",
     ClientCertificateData |-> "", ClientKeyData |-> ""]
NoAuth ==
    [Basic |-> {}, LDAP |-> {}, MTLS |-> {}]

\* config.Cluster with no field set; the TLS options store.NewOptions
\* starts from
NoCluster ==
    [Insecure |-> FALSE, CertificateAuthorityData |-> "",
     TLSSkipVerify |-> FALSE, TLSVerifyChainOnly |-> FALSE]
NoTLS ==
    [Insecure |-> FALSE, CAData |-> "",
     InsecureSkipVerify |-> FALSE, VerifyChainOnly |-> FALSE]

OptionsIdle ==
    /\ user = NoUser
    /\ cluster = NoCluster
    /\ storeOpts = [Auth |-> NoAuth, TLS |-> NoTLS]
    /\ built = FALSE

\* the zero client struct NewClient fills in
NoResult == [op |-> "none", err |-> [type |-> "nil", text |-> ""],
             sent |-> 0, closed |-> FALSE, transport |-> "none",
             rsp |-> [status |-> 0, body |-> "none", msg |-> <<>>]]
ClientIdle ==
    /\ cstore = Nil
    /\ connected = FALSE
    /\ cres = NoResult
    /\ ncalls = 0

\* two fresh facades, no call made
NoPair ==
    [calls |-> <<>>, inSlot |-> FALSE, dSlot |-> FALSE, dFlag |-> FALSE,
     inErr |-> [type |-> "nil", text |-> ""],
     dErr |-> [type |-> "nil", text |-> ""],
     inClass |-> "none", dClass |-> "none"]
Callers == 1..NumCallers
NoCall == [op |-> "none", pc |-> "idle"]
\* no file at the socket path; a daemon process that has just started
NoSocket == [exists |-> FALSE, mode |-> <<0, 0, 0>>, group |-> "root"]
Started ==
    [main |-> "wait", srv |-> "start", umask |-> <<0, 2, 2>>,
     listening |-> FALSE, shutErr |-> "none", exit |-> -1]
DefaultHost ==
    [goos |-> "linux", insecure |-> FALSE, group |-> FALSE, stale |-> FALSE,
     drain |-> TRUE, closeErr |-> FALSE]
\* the app before the switch is touched: no connect task started, and
\* cancelConnect (0) bound to no connect's context
Connects == 1..MaxConnects
NoGui ==
    [switch |-> "Disconnected", queued |-> 0, connecting |-> FALSE,
     connected |-> FALSE, cancelConnect |-> 0,
     task |-> [k \in Connects |-> "none"], next |-> 1, cancelled |-> {},
     disc |-> FALSE, cancels |-> {}, shown |-> {}]
\* a client with no config loaded
NoConf ==
    [configPath |-> "", config |-> "nil", err |-> FALSE, loads |-> 0,
     before |-> [configPath |-> "", config |-> "nil"], sent |-> "none"]
\* no error value examined yet
NoChk ==
    [err |-> [type |-> "nil", text |-> ""], called |-> FALSE,
     panicked |-> FALSE, ret |-> FALSE]
UiIdle ==
    /\ gui = NoGui
    /\ conf = NoConf
    /\ chk = NoChk

ExtIdle ==
    /\ pair = NoPair
    /\ cmu = 0
    /\ caller = [c \in Callers |-> NoCall]
    /\ host = DefaultHost
    /\ sock = NoSocket
    /\ run = Started
    /\ UiIdle

DefaultProc ==
    [goos |-> "linux", uid |-> 1000, userName |-> "user",
     userErr |-> FALSE, statErr |-> "nil"]

Init ==
    /\ ServerInit
    /\ proc = DefaultProc
    /\ hasClient = FALSE
    /\ noDaemon = FALSE
    /\ OptionsIdle
    /\ ClientIdle
    /\ ExtIdle

\* ------------------------------------------------------- handler plumbing
\* the daemon process has not exited
Running == phase # "exited"

\* Return as it would be if the handler returned without the deferred Unlock.
Return_KeepLock(r, rsp, slot, calls, prd) ==
    /\ store' = slot
    /\ mu' = mu
    /\ pc' = [pc EXCEPT ![r] = "idle"]
    /\ req' = [req EXCEPT ![r] = NoRequest]
    /\ cur' = [cur EXCEPT ![r] = Nil]
    /\ wait' = [wait EXCEPT ![r] = NoWait]
    /\ ops' = [ops EXCEPT ![r] = <<>>]
    /\ slotAtLock' = [slotAtLock EXCEPT ![r] = Nil]
    /\ settled' = slot
    /\ installed' = installed \cup ({slot} \ {Nil})
    /\ last' = [req |-> req[r], resp |-> rsp, ops |-> calls,
                slotAtLock |-> slotAtLock[r], slotAtReturn |-> slot,
                cur |-> cur[r], wait |-> wait[r], pred |-> prd]

\* The handler returns: the response is written, s.store has the value
\* `slot`, the deferred Unlock runs and the handler's locals are gone.
\* `calls` are the engine calls the handler made, `prd` the preceding
\* successful Connect when this is one.
Return(r, rsp, slot, calls, prd) ==
    /\ store' = slot
    /\ mu' = 0
    /\ pc' = [pc EXCEPT ![r] = "idle"]
    /\ req' = [req EXCEPT ![r] = NoRequest]
    /\ cur' = [cur EXCEPT ![r] = Nil]
    /\ wait' = [wait EXCEPT ![r] = NoWait]
    /\ ops' = [ops EXCEPT ![r] = <<>>]
    /\ slotAtLock' = [slotAtLock EXCEPT ![r] = Nil]
    /\ settled' = slot
    /\ installed' = installed \cup ({slot} \ {Nil})
    /\ last' = [req |-> req[r], resp |-> rsp, ops |-> calls,
                slotAtLock |-> slotAtLock[r], slotAtReturn |-> slot,
                cur |-> cur[r], wait |-> wait[r], pred |-> prd]

\* requirePOST as it would be if it let every method through.
requirePOST_AnyMethod(path, method) ==
    path \in Paths /\ method \in Methods

\* requirePOST applied to the handler registered for the path
requirePOST(path, method) ==
    path \in {"/connect", "/disconnect"} => method = "POST"

\* A request arrives and is routed by the mux (NewServer's registrations);
\* requirePOST answers 405 without calling the handler.
ServeHTTP(r) ==
    /\ phase = "serving"
    /\ pc[r] = "idle"
    /\ budget < MaxRequests
    /\ budget' = budget + 1
    /\ \E path \in Paths, method \in Methods :
        LET rq == [path |-> path, method |-> method, timeout |-> 0] IN
        IF requirePOST(path, method)
        THEN /\ pc' = [pc EXCEPT ![r] = "lock"]
             /\ req' = [req EXCEPT ![r] = rq]
             /\ UNCHANGED last
        ELSE /\ last' = [NoLast EXCEPT
                            !.req = rq,
                            !.resp = [status |-> 405, body |-> "none",
                                      msg |-> <<>>]]
             /\ UNCHANGED <<pc, req>>
    /\ UNCHANGED <<serverVars, cur, wait, ops, slotAtLock, settled, trail,
                   installed, runVars, clientVars>>

\* Lock as it would be if the handler did not wait for the mutex.
Lock_NoWait(r) ==
    /\ Running
    /\ pc[r] = "lock"
    /\ mu' = r
    /\ pc' = [pc EXCEPT ![r] =
                CASE req[r].path = "/connect" -> "conn_decode"
                  [] req[r].path = "/disconnect" -> "disc_body"
                  [] OTHER -> "metrics_body"]
    /\ slotAtLock' = [slotAtLock EXCEPT ![r] = store]
    /\ UNCHANGED <<store, engine, nextHandle, closeCalls, req, cur, wait,
                   ops, budget, ghostVars, runVars, clientVars>>

\* s.mu.Lock() at the top of each handler
Lock(r) ==
    /\ Running
    /\ pc[r] = "lock"
    /\ mu = 0
    /\ mu' = r
    /\ pc' = [pc EXCEPT ![r] =
                CASE req[r].path = "/connect" -> "conn_decode"
                  [] req[r].path = "/disconnect" -> "disc_body"
                  [] OTHER -> "metrics_body"]
    /\ slotAtLock' = [slotAtLock EXCEPT ![r] = store]
    /\ UNCHANGED <<store, engine, nextHandle, closeCalls, req, cur, wait,
                   ops, budget, ghostVars, runVars, clientVars>>

\* ---------------------------------------------------------- handleConnect
\* handleConnect_Load as it would be if a failed request reset the session.
handleConnect_Load_Clear(r) ==
    /\ Running
    /\ pc[r] = "conn_decode"
    /\ \E out \in {"decode_err", "config_err", "ok"}, t \in ConnectTimeouts :
        IF out = "ok"
        THEN /\ pc' = [pc EXCEPT ![r] =
                         IF store # Nil THEN "conn_close" ELSE "conn_new"]
             /\ req' = [req EXCEPT ![r].timeout = t]
             /\ UNCHANGED <<store, mu, cur, wait, ops, slotAtLock, ghostVars>>
        ELSE /\ t = 0
             /\ Return(r, returnError(
                            IF out = "decode_err"
                            THEN Errorf("decode request", <<"json error">>)
                            ELSE Errorf("load config", <<"config error">>)),
                       Nil, ops[r], NoPred)
             /\ UNCHANGED trail
    /\ UNCHANGED <<engine, nextHandle, closeCalls, budget, runVars, clientVars>>

\* Decode the request body (which carries the options) and load the profile
\* config file.
handleConnect_Load(r) ==
    /\ Running
    /\ pc[r] = "conn_decode"
    /\ \E out \in {"decode_err", "config_err", "ok"}, t \in ConnectTimeouts :
        IF out = "ok"
        THEN /\ pc' = [pc EXCEPT ![r] =
                         IF store # Nil THEN "conn_close" ELSE "conn_new"]
             /\ req' = [req EXCEPT ![r].timeout = t]
             /\ UNCHANGED <<store, mu, cur, wait, ops, slotAtLock, ghostVars>>
        ELSE /\ t = 0
             /\ Return(r, returnError(
                            IF out = "decode_err"
                            THEN Errorf("decode request", <<"json error">>)
                            ELSE Errorf("load config", <<"config error">>)),
                       store, ops[r], NoPred)
             /\ UNCHANGED trail
    /\ UNCHANGED <<engine, nextHandle, closeCalls, budget, runVars, clientVars>>

\* handleConnect_CloseExisting as it would be if the old store were dropped
\* without being closed.
handleConnect_CloseExisting_NoClose(r) ==
    /\ Running
    /\ pc[r] = "conn_close"
    /\ pc' = [pc EXCEPT ![r] = "conn_new"]
    /\ UNCHANGED <<serverVars, req, cur, wait, ops, slotAtLock, budget,
                   ghostVars, runVars, clientVars>>

\* handleConnect_CloseExisting as it would be if a close error were ignored.
handleConnect_CloseExisting_Proceed(r) ==
    /\ Running
    /\ pc[r] = "conn_close"
    /\ \E out \in CloseOutcomes :
        /\ engine' = CloseEffect(engine, store, out)
        /\ closeCalls' = [closeCalls EXCEPT ![store] = @ + 1]
        /\ ops' = [ops EXCEPT ![r] = Append(@, <<"Close", store, out>>)]
    /\ pc' = [pc EXCEPT ![r] = "conn_new"]
    /\ UNCHANGED <<store, mu, nextHandle, req, cur, wait, slotAtLock, budget,
                   ghostVars, runVars, clientVars>>

\* if s.store != nil: close the existing store, abort when that fails.
handleConnect_CloseExisting(r) ==
    /\ Running
    /\ pc[r] = "conn_close"
    /\ \E out \in CloseOutcomes :
        /\ engine' = CloseEffect(engine, store, out)
        /\ closeCalls' = [closeCalls EXCEPT ![store] = @ + 1]
        /\ IF out = "ok"
           THEN /\ ops' = [ops EXCEPT ![r] = Append(@, <<"Close", store, out>>)]
                /\ pc' = [pc EXCEPT ![r] = "conn_new"]
                /\ UNCHANGED <<store, mu, req, cur, wait, slotAtLock,
                               ghostVars>>
           ELSE /\ Return(r, returnError(
                               Errorf("close existing store", CloseError)),
                          store, Append(ops[r], <<"Close", store, out>>),
                          NoPred)
                /\ trail' = [trail EXCEPT !.abort = TRUE]
    /\ UNCHANGED <<nextHandle, budget, runVars, clientVars>>

\* ---------------------------------------------------------------- newStore
\* newStore_New as it would be if handleConnect assigned s.store only on
\* success.
newStore_New_KeepOld(r) ==
    /\ Running
    /\ pc[r] = "conn_new"
    /\ \E ok \in BOOLEAN :
        IF ok
        THEN /\ engine' = [engine EXCEPT ![nextHandle] = "created"]
             /\ cur' = [cur EXCEPT ![r] = nextHandle]
             /\ nextHandle' = nextHandle + 1
             /\ ops' = [ops EXCEPT ![r] = Append(@, <<"New", nextHandle, "ok">>)]
             /\ pc' = [pc EXCEPT ![r] = "conn_open"]
             /\ UNCHANGED <<store, mu, req, wait, slotAtLock, last, settled, installed>>
        ELSE /\ Return(r, returnError(Errorf("new store", <<"new error">>)),
                       store, Append(ops[r], <<"New", Nil, "err">>), NoPred)
             /\ UNCHANGED <<engine, nextHandle>>
    /\ UNCHANGED <<closeCalls, budget, trail, runVars, clientVars>>

\* store.New(storeopts); on error handleConnect assigns the nil store.
newStore_New(r) ==
    /\ Running
    /\ pc[r] = "conn_new"
    /\ \E ok \in BOOLEAN :
        IF ok
        THEN /\ engine' = [engine EXCEPT ![nextHandle] = "created"]
             /\ cur' = [cur EXCEPT ![r] = nextHandle]
             /\ nextHandle' = nextHandle + 1
             /\ ops' = [ops EXCEPT ![r] = Append(@, <<"New", nextHandle, "ok">>)]
             /\ pc' = [pc EXCEPT ![r] = "conn_open"]
             /\ UNCHANGED <<store, mu, req, wait, slotAtLock, last, settled, installed>>
        ELSE /\ Return(r, returnError(Errorf("new store", <<"new error">>)),
                       Nil, Append(ops[r], <<"New", Nil, "err">>), NoPred)
             /\ UNCHANGED <<engine, nextHandle>>
    /\ UNCHANGED <<closeCalls, budget, trail, runVars, clientVars>>

\* st.Open(); on error handleConnect assigns the nil store.
newStore_Open(r) ==
    /\ Running
    /\ pc[r] = "conn_open"
    /\ \E ok \in BOOLEAN :
        IF ok
        THEN /\ engine' = [engine EXCEPT ![cur[r]] = "open"]
             /\ ops' = [ops EXCEPT ![r] = Append(@, <<"Open", cur[r], "ok">>)]
             /\ \E d \in ReadyDelays, g \in BOOLEAN :
                    wait' = [wait EXCEPT ![r] = [delay |-> d, gone |-> g]]
             /\ pc' = [pc EXCEPT ![r] = "conn_wait"]
             /\ UNCHANGED <<store, mu, req, cur, slotAtLock, last, settled, installed>>
        ELSE /\ Return(r, returnError(Errorf("open store", <<"open error">>)),
                       Nil, Append(ops[r], <<"Open", cur[r], "err">>), NoPred)
             /\ UNCHANGED engine
    /\ UNCHANGED <<nextHandle, closeCalls, budget, trail, runVars, clientVars>>

\* newStore_Ready as it would be if handleConnect dropped the new store.
newStore_Ready_KeepOld(r) ==
    /\ Running
    /\ pc[r] = "conn_wait"
    /\ LET err == CtxErr(req[r], wait[r]) IN
        IF err = <<>>
        THEN /\ Return(r, returnOK, store,
                       Append(ops[r], <<"ReadyNotify", cur[r], "ready">>),
                       [h |-> IF trail.disc THEN Nil ELSE trail.lastOK,
                        clean |-> ~trail.abort])
             /\ trail' = [lastOK |-> cur[r], disc |-> FALSE, abort |-> FALSE]
        ELSE /\ ops' = [ops EXCEPT ![r] =
                          Append(@, <<"ReadyNotify", cur[r], "ctx_done">>)]
             /\ pc' = [pc EXCEPT ![r] = "conn_cleanup"]
             /\ UNCHANGED <<store, mu, req, cur, wait, slotAtLock, ghostVars>>
    /\ UNCHANGED <<engine, nextHandle, closeCalls, budget, runVars, clientVars>>

\* <-st.ReadyNotify(ctx) under context.WithTimeout, then ctx.Err(); with a
\* nil error newStore returns st and handleConnect stores it and answers OK.
newStore_Ready(r) ==
    /\ Running
    /\ pc[r] = "conn_wait"
    /\ LET err == CtxErr(req[r], wait[r]) IN
        IF err = <<>>
        THEN /\ Return(r, returnOK, cur[r],
                       Append(ops[r], <<"ReadyNotify", cur[r], "ready">>),
                       [h |-> IF trail.disc THEN Nil ELSE trail.lastOK,
                        clean |-> ~trail.abort])
             /\ trail' = [lastOK |-> cur[r], disc |-> FALSE, abort |-> FALSE]
        ELSE /\ ops' = [ops EXCEPT ![r] =
                          Append(@, <<"ReadyNotify", cur[r], "ctx_done">>)]
             /\ pc' = [pc EXCEPT ![r] = "conn_cleanup"]
             /\ UNCHANGED <<store, mu, req, cur, wait, slotAtLock, ghostVars>>
    /\ UNCHANGED <<engine, nextHandle, closeCalls, budget, runVars, clientVars>>

\* newStore_Cleanup as it would be if the engine were dropped without Close.
newStore_Cleanup_NoClose(r) ==
    /\ Running
    /\ pc[r] = "conn_cleanup"
    /\ Return(r, returnError(Errorf("wait for store ready",
                                    CtxErr(req[r], wait[r]))),
              Nil, ops[r], NoPred)
    /\ UNCHANGED <<engine, closeCalls>>
    /\ UNCHANGED <<nextHandle, budget, trail, runVars, clientVars>>

\* newStore_Cleanup as it would be if a store whose Close failed were kept.
newStore_Cleanup_KeepOnError(r) ==
    /\ Running
    /\ pc[r] = "conn_cleanup"
    /\ \E out \in CloseOutcomes :
        /\ engine' = CloseEffect(engine, cur[r], out)
        /\ closeCalls' = [closeCalls EXCEPT ![cur[r]] = @ + 1]
        /\ Return(r, returnError(Errorf("wait for store ready",
                                        CtxErr(req[r], wait[r]))),
                  IF out = "ok" THEN Nil ELSE cur[r],
                  Append(ops[r], <<"Close", cur[r], out>>), NoPred)
    /\ UNCHANGED <<nextHandle, budget, trail, runVars, clientVars>>

\* ctx.Err() != nil: close the engine again (a failure is only logged) and
\* return the wrapped context error; handleConnect assigns the nil store.
newStore_Cleanup(r) ==
    /\ Running
    /\ pc[r] = "conn_cleanup"
    /\ \E out \in CloseOutcomes :
        /\ engine' = CloseEffect(engine, cur[r], out)
        /\ closeCalls' = [closeCalls EXCEPT ![cur[r]] = @ + 1]
        /\ Return(r, returnError(Errorf("wait for store ready",
                                        CtxErr(req[r], wait[r]))),
                  Nil, Append(ops[r], <<"Close", cur[r], out>>), NoPred)
    /\ UNCHANGED <<nextHandle, budget, trail, runVars, clientVars>>

handleConnect(r) ==
    \/ handleConnect_Load(r)
    \/ handleConnect_CloseExisting(r)
    \/ newStore_New(r)
    \/ newStore_Open(r)
    \/ newStore_Ready(r)
    \/ newStore_Cleanup(r)

\* handleDisconnect as it would be if the slot were cleared before the
\* result of Close is known.
handleDisconnect_AlwaysClear(r) ==
    /\ Running
    /\ pc[r] = "disc_body"
    /\ IF store = Nil
       THEN /\ Return(r, returnError(ErrNotConnected), store, ops[r], NoPred)
            /\ UNCHANGED <<engine, closeCalls>>
       ELSE \E out \in CloseOutcomes :
            /\ engine' = CloseEffect(engine, store, out)
            /\ closeCalls' = [closeCalls EXCEPT ![store] = @ + 1]
            /\ Return(r,
                      IF out = "ok" THEN returnOK ELSE returnError(CloseError),
                      Nil,
                      Append(ops[r], <<"Close", store, out>>), NoPred)
    /\ trail' = [trail EXCEPT !.disc = TRUE]
    /\ UNCHANGED <<nextHandle, budget, runVars, clientVars>>

\* handleDisconnect as it would be if an idle daemon answered OK.
handleDisconnect_IdleOK(r) ==
    /\ Running
    /\ pc[r] = "disc_body"
    /\ IF store = Nil
       THEN /\ Return(r, returnOK, store, ops[r], NoPred)
            /\ UNCHANGED <<engine, closeCalls>>
       ELSE \E out \in CloseOutcomes :
            /\ engine' = CloseEffect(engine, store, out)
            /\ closeCalls' = [closeCalls EXCEPT ![store] = @ + 1]
            /\ Return(r,
                      IF out = "ok" THEN returnOK ELSE returnError(CloseError),
                      IF out = "ok" THEN Nil ELSE store,
                      Append(ops[r], <<"Close", store, out>>), NoPred)
    /\ trail' = [trail EXCEPT !.disc = TRUE]
    /\ UNCHANGED <<nextHandle, budget, runVars, clientVars>>

\* ------------------------------------------------------- handleDisconnect
handleDisconnect(r) ==
    /\ Running
    /\ pc[r] = "disc_body"
    /\ IF store = Nil
       THEN /\ Return(r, returnError(ErrNotConnected), store, ops[r], NoPred)
            /\ UNCHANGED <<engine, closeCalls>>
       ELSE \E out \in CloseOutcomes :
            /\ engine' = CloseEffect(engine, store, out)
            /\ closeCalls' = [closeCalls EXCEPT ![store] = @ + 1]
            /\ Return(r,
                      IF out = "ok" THEN returnOK ELSE returnError(CloseError),
                      IF out = "ok" THEN Nil ELSE store,
                      Append(ops[r], <<"Close", store, out>>), NoPred)
    /\ trail' = [trail EXCEPT !.disc = TRUE]
    /\ UNCHANGED <<nextHandle, budget, runVars, clientVars>>

\* handleInterfaceMetrics as it would be if the sentinel were wrapped.
handleInterfaceMetrics_Wrapped(r) ==
    /\ Running
    /\ pc[r] = "metrics_body"
    /\ IF store = Nil
       THEN Return(r, returnError(Errorf("get interface metrics",
                                         ErrNotConnected)),
                   store, ops[r], NoPred)
       ELSE \E ok \in BOOLEAN :
            Return(r,
                   IF ok
                   THEN [status |-> 200, body |-> "metrics", msg |-> <<>>]
                   ELSE returnError(Errorf("get interface metrics",
                                           <<"metrics error">>)),
                   store,
                   Append(ops[r],
                          <<"Metrics", store, IF ok THEN "ok" ELSE "err">>),
                   NoPred)
    /\ UNCHANGED <<engine, nextHandle, closeCalls, budget, trail, runVars, clientVars>>

\* ------------------------------------------------- handleInterfaceMetrics
handleInterfaceMetrics(r) ==
    /\ Running
    /\ pc[r] = "metrics_body"
    /\ IF store = Nil
       THEN Return(r, returnError(ErrNotConnected), store, ops[r], NoPred)
       ELSE \E ok \in BOOLEAN :
            Return(r,
                   IF ok
                   THEN [status |-> 200, body |-> "metrics", msg |-> <<>>]
                   ELSE returnError(Errorf("get interface metrics",
                                           <<"metrics error">>)),
                   store,
                   Append(ops[r],
                          <<"Metrics", store, IF ok THEN "ok" ELSE "err">>),
                   NoPred)
    /\ UNCHANGED <<engine, nextHandle, closeCalls, budget, trail, runVars, clientVars>>

\* --------------------------------------------------------------------- Run
\* Run receives the termination signal and calls server.Shutdown with its
\* 30 second context: the listener is closed, requests in flight go on.
Run_Signal ==
    /\ phase = "serving"
    /\ phase' = "shutdown"
    /\ atShutdown' = [slot |-> store,
                      calls |-> IF store = Nil THEN 0 ELSE closeCalls[store]]
    /\ UNCHANGED <<serverVars, workerVars, ghostVars, exitCode, clientVars>>

\* Server.Shutdown returns: nil once no request is in flight, the context
\* error when the deadline passes first; Run then returns or calls
\* os.Exit(1). The socket file is removed; s.store is not touched.
Shutdown ==
    /\ phase = "shutdown"
    /\ phase' = "exited"
    /\ exitCode' = IF \A r \in Workers : pc[r] = "idle" THEN 0 ELSE 1
    /\ UNCHANGED <<serverVars, workerVars, ghostVars, atShutdown, clientVars>>

\* ------------------------------------------------------------------- Next
Next ==
    \/ \E r \in Workers :
        \/ ServeHTTP(r)
        \/ Lock(r)
        \/ handleConnect(r)
        \/ handleDisconnect(r)
        \/ handleInterfaceMetrics(r)
    \/ Run_Signal
    \/ Shutdown

Spec == Init /\ [][Next]_vars

\* The daemon while it serves, with no termination signal: a handler that has
\* the lock goes on (the engine calls return, the ready-wait ends), and a
\* handler waiting for a free mutex gets it.
Handle(r) ==
    \/ Lock(r)
    \/ handleConnect(r)
    \/ handleDisconnect(r)
    \/ handleInterfaceMetrics(r)

LiveNext ==
    \E r \in Workers :
        \/ ServeHTTP(r)
        \/ Handle(r)

LiveSpec ==
    /\ Init
    /\ [][LiveNext]_vars
    /\ \A r \in Workers : WF_vars(Handle(r))

TypeOK ==
    /\ store \in {Nil} \cup Handles
    /\ mu \in {0} \cup Workers
    /\ nextHandle \in 1..(MaxRequests + 1)
    /\ installed \subseteq Handles
    /\ phase \in {"serving", "shutdown", "exited"}
    /\ exitCode \in {0, 1}

\* ---------------------------------------------------------------- NewClient
IsNotExist(err) == err = "ENOENT"

\* user.Current() as the process sees it
CurrentUserErr(p) == IF p.userErr THEN "lookup error" ELSE "nil"

\* the noDaemon closure of NewClient; on windows `err` is the error of
\* user.Current(), declared by := in the inner scope
NoDaemonRule(p) ==
    IF p.goos = "windows"
    THEN IF CurrentUserErr(p) = "nil"
         THEN p.userName = "SYSTEM" /\ IsNotExist(CurrentUserErr(p))
         ELSE FALSE
    ELSE p.uid = 0 /\ IsNotExist(p.statErr)

Procs ==
    { p \in [goos : {"linux", "darwin", "freebsd", "windows"},
             uid : {-1, 0, 1000},
             userName : {"SYSTEM", "user"},
             userErr : BOOLEAN,
             statErr : {"nil", "ENOENT", "EACCES"}] :
        (p.goos = "windows") <=> (p.uid = -1) }

ModeInit ==
    /\ ServerInit
    /\ proc \in Procs
    /\ hasClient = FALSE
    /\ noDaemon = FALSE
    /\ OptionsIdle
    /\ ClientIdle
    /\ ExtIdle

NewClient ==
    /\ ~hasClient
    /\ hasClient' = TRUE
    /\ noDaemon' = NoDaemonRule(proc)
    /\ UNCHANGED <<serverVars, workerVars, ghostVars, runVars, proc,
                   optVars, facadeVars, extVars>>

ModeNext == NewClient

ModeSpec == ModeInit /\ [][ModeNext]_vars

\* ------------------------------------------------- newStoreOptions (auth)
\* the user entries of a config: every field empty or set
Users ==
    [BasicAuthUsername : {"", "alice"}, BasicAuthPassword : {"", "secret"},
     LDAPUsername : {"", "cn=alice"}, LDAPPassword : {"", "ldapsecret"},
     ClientCertificateData : {"", "CERT"}, ClientKeyData : {"", "KEY"}]

\* the cluster entries of a config: every field unset or set
Clusters ==
    [Insecure : BOOLEAN, CertificateAuthorityData : {"", "CA"},
     TLSSkipVerify : BOOLEAN, TLSVerifyChainOnly : BOOLEAN]

OptionsInit ==
    /\ ServerInit
    /\ proc = DefaultProc
    /\ hasClient = FALSE
    /\ noDaemon = FALSE
    /\ ClientIdle
    /\ ExtIdle
    /\ user \in Users
    /\ cluster \in Clusters
    /\ storeOpts = [Auth |-> NoAuth, TLS |-> NoTLS]
    /\ built = FALSE

\* newStoreOptions returns the options built for the resolved user and
\* cluster
BuildOptions ==
    /\ ~built
    /\ storeOpts' = [Auth |-> Auth(user), TLS |-> TLS(cluster)]
    /\ built' = TRUE
    /\ UNCHANGED <<serverVars, workerVars, ghostVars, runVars, modeVars,
                   user, cluster, facadeVars, extVars>>

OptionsNext == BuildOptions

OptionsSpec == OptionsInit /\ [][OptionsNext]_vars

\* ---------------------------------------------------------------- client.do
\* err.Error(): the messages of the chain joined as fmt.Errorf("...: %w")
\* joins them
RECURSIVE ErrorString(_)
ErrorString(err) ==
    IF err = <<>> THEN ""
    ELSE IF Len(err) = 1 THEN err[1]
    ELSE err[1] \o ": " \o ErrorString(Tail(err))

\* http.Status text of the codes the daemon writes
StatusText(code) ==
    CASE code = 200 -> "200 OK"
      [] code = 405 -> "405 Method Not Allowed"
      [] code = 500 -> "500 Internal Server Error"
      [] OTHER -> "0"

\* errors as the client sees them: the dynamic type and the text of Error()
NilErr == [type |-> "nil", text |-> ""]
errNotConnected == [type |-> "errorString", text |-> ErrorString(ErrNotConnected)]
daemonError(message) == [type |-> "daemonError", text |-> message]
WrapError(text) == [type |-> "wrapError", text |-> text]

\* outcomes of http.Client.Do on the unix socket
Transports == {"ok", "dial unix: connection refused"}

\* the bodies json.Decoder can decode into the response value
Decodable(body) == body \in {"ok", "metrics", "message"}

\* client.do as it would be if it looked at the transport error only.
do_TransportOnly(transport, rsp) ==
    IF transport # "ok"
    THEN WrapError("do request: " \o transport)
    ELSE NilErr

\* client.do: `transport` is the outcome of cli.Do, `rsp` the response the
\* daemon wrote. returnError wrote err.Error() as the message; a 405 of
\* requirePOST has an empty body, and so has a 200 whose encoding failed.
do(transport, rsp) ==
    IF transport # "ok"
    THEN WrapError("do request: " \o transport)
    ELSE IF rsp.status # 200
         THEN IF rsp.body = "message"
              THEN daemonError(ErrorString(rsp.msg))
              ELSE WrapError("bad status: " \o StatusText(rsp.status)
                             \o ", decode error: EOF")
         ELSE IF Decodable(rsp.body)
              THEN NilErr
              ELSE WrapError("decode response: EOF")

\* IsNotConnected as it would be if it compared the error values only.
IsNotConnected_Identity(err) ==
    err = errNotConnected

\* IsNotConnected for a non-nil err: the sentinel itself or any error with
\* the same text
IsNotConnected(err) ==
    err = errNotConnected \/ err.text = errNotConnected.text

\* a call of IsNotConnected: a nil err is not the sentinel, so err.Error()
\* is evaluated on the nil interface and the call panics; any other err
\* yields the boolean
IsNotConnected_Call(err) ==
    IF err # errNotConnected /\ err.type = "nil"
    THEN [panicked |-> TRUE, ret |-> FALSE]
    ELSE [panicked |-> FALSE, ret |-> IsNotConnected(err)]

\* ------------------------------------------------------------------- client
\* the processes the facade is exercised in: POSIX, privileged or not, with
\* or without the daemon's socket
FacadeProcs ==
    {p \in Procs : p.goos = "linux" /\ p.userName = "user" /\ ~p.userErr}

FacadeInit ==
    /\ ServerInit
    /\ proc \in FacadeProcs
    /\ hasClient = FALSE
    /\ noDaemon = FALSE
    /\ OptionsIdle
    /\ ClientIdle
    /\ ExtIdle

\* what a daemon on the other end of the socket can answer to a request
DaemonAnswers(path) ==
    CASE path = "/connect" ->
            {returnOK, [returnOK EXCEPT !.body = "none"],
             returnError(Errorf("close existing store", CloseError)),
             returnError(Errorf("wait for store ready", DeadlineExceeded))}
      [] path = "/disconnect" ->
            {returnOK, returnError(ErrNotConnected), returnError(CloseError)}
      [] OTHER ->
            {[status |-> 200, body |-> "metrics", msg |-> <<>>],
             returnError(ErrNotConnected)}

\* outcomes of newStore called in-process
NewStoreOutcomes == {"ok", "new_err", "open_err", "not_ready"}

\* a facade call returns: the result is recorded
Result(op, err, sent, closed) ==
    /\ cres' = [NoResult EXCEPT !.op = op, !.err = err, !.sent = sent,
                                !.closed = closed]
    /\ ncalls' = ncalls + 1

\* a facade call returns what c.do returned for its one request: cli.Do had
\* the outcome t and the daemon, if reached, answered rsp
Relay(op, t, rsp, closed) ==
    /\ cres' = [op |-> op, err |-> do(t, rsp), sent |-> 1, closed |-> closed,
                transport |-> t, rsp |-> IF t = "ok" THEN rsp ELSE NoResponse]
    /\ ncalls' = ncalls + 1

\* c.connected as it would be if closing the existing store left the flag
\* alone.
Connected_CloseExisting_Keep(closed, flag) == flag

\* c.connected after the first step of the in-process Connect: false is
\* stored once an existing store has been closed
Connected_CloseExisting(closed, flag) == IF closed THEN FALSE ELSE flag

\* newStore called by the in-process Connect; `closed` tells whether an
\* existing store was closed first
Connect_newStore(eng, calls, closed) ==
    \E out \in NewStoreOutcomes :
        CASE out = "new_err" ->
                /\ engine' = eng
                /\ closeCalls' = calls
                /\ UNCHANGED nextHandle
                /\ cstore' = Nil
                /\ connected' = Connected_CloseExisting(closed, connected)
                /\ Result("Connect", WrapError("new store: new error"),
                          0, closed)
          [] out = "open_err" ->
                /\ engine' = [eng EXCEPT ![nextHandle] = "created"]
                /\ closeCalls' = calls
                /\ nextHandle' = nextHandle + 1
                /\ cstore' = Nil
                /\ connected' = Connected_CloseExisting(closed, connected)
                /\ Result("Connect", WrapError("open store: open error"),
                          0, closed)
          [] out = "not_ready" ->
                \E c \in CloseOutcomes :
                /\ engine' = CloseEffect([eng EXCEPT ![nextHandle] = "open"],
                                         nextHandle, c)
                /\ closeCalls' = [calls EXCEPT ![nextHandle] = @ + 1]
                /\ nextHandle' = nextHandle + 1
                /\ cstore' = Nil
                /\ connected' = Connected_CloseExisting(closed, connected)
                /\ Result("Connect",
                          WrapError(ErrorString(Errorf("wait for store ready",
                                                       DeadlineExceeded))),
                          0, closed)
          [] OTHER ->
                /\ engine' = [eng EXCEPT ![nextHandle] = "open"]
                /\ closeCalls' = calls
                /\ nextHandle' = nextHandle + 1
                /\ cstore' = nextHandle
                /\ connected' = TRUE
                /\ Result("Connect", NilErr, 0, closed)

\* client.Connect
Connect ==
    /\ hasClient
    /\ ncalls < MaxRequests
    /\ nextHandle <= MaxRequests
    /\ IF noDaemon
       THEN IF cstore # Nil
            THEN \E c \in CloseOutcomes :
                    IF c # "ok"
                    THEN /\ engine' = CloseEffect(engine, cstore, c)
                         /\ closeCalls' = [closeCalls EXCEPT ![cstore] = @ + 1]
                         /\ Result("Connect",
                                   WrapError(ErrorString(
                                       Errorf("close existing store",
                                              CloseError))),
                                   0, FALSE)
                         /\ UNCHANGED <<nextHandle, cstore, connected>>
                    ELSE Connect_newStore(
                            CloseEffect(engine, cstore, c),
                            [closeCalls EXCEPT ![cstore] = @ + 1], TRUE)
            ELSE Connect_newStore(engine, closeCalls, FALSE)
       ELSE \E t \in Transports, rsp \in DaemonAnswers("/connect") :
                /\ connected' = IF do(t, rsp) = NilErr THEN TRUE ELSE connected
                /\ Relay("Connect", t, rsp, FALSE)
                /\ UNCHANGED <<engine, closeCalls, nextHandle, cstore>>
    /\ UNCHANGED <<store, mu, workerVars, ghostVars, runVars, modeVars,
                   optVars, extVars>>

\* client.Disconnect: the noDaemon branch has no return after the store is
\* closed, so the call goes on to c.do
Disconnect ==
    /\ hasClient
    /\ ncalls < MaxRequests
    /\ IF noDaemon /\ cstore = Nil
       THEN /\ Result("Disconnect", errNotConnected, 0, FALSE)
            /\ UNCHANGED <<engine, closeCalls, cstore, connected>>
       ELSE IF noDaemon
       THEN \E c \in CloseOutcomes :
            /\ engine' = CloseEffect(engine, cstore, c)
            /\ closeCalls' = [closeCalls EXCEPT ![cstore] = @ + 1]
            /\ IF c # "ok"
               THEN /\ Result("Disconnect",
                              WrapError(ErrorString(
                                  Errorf("close store", CloseError))),
                              0, FALSE)
                    /\ UNCHANGED <<cstore, connected>>
               ELSE \E t \in Transports, rsp \in DaemonAnswers("/disconnect") :
                    /\ cstore' = Nil
                    /\ connected' = FALSE
                    /\ Relay("Disconnect", t, rsp, TRUE)
       ELSE \E t \in Transports, rsp \in DaemonAnswers("/disconnect") :
            /\ connected' = IF do(t, rsp) = NilErr THEN FALSE ELSE connected
            /\ Relay("Disconnect", t, rsp, FALSE)
            /\ UNCHANGED <<engine, closeCalls, cstore>>
    /\ UNCHANGED <<store, mu, nextHandle, workerVars, ghostVars, runVars,
                   modeVars, optVars, extVars>>

\* client.InterfaceMetrics
InterfaceMetrics ==
    /\ hasClient
    /\ ncalls < MaxRequests
    /\ IF noDaemon
       THEN IF cstore = Nil
            THEN Result("InterfaceMetrics", errNotConnected, 0, FALSE)
            ELSE \E ok \in BOOLEAN :
                    Result("InterfaceMetrics",
                           IF ok THEN NilErr ELSE WrapError("metrics error"),
                           0, FALSE)
       ELSE \E t \in Transports, rsp \in DaemonAnswers("/interface-metrics") :
                Relay("InterfaceMetrics", t, rsp, FALSE)
    /\ UNCHANGED <<serverVars, workerVars, ghostVars, runVars, modeVars,
                   optVars, cstore, connected, extVars>>

FacadeNext ==
    \/ NewClient
    \/ Connect
    \/ Disconnect
    \/ InterfaceMetrics

FacadeSpec == FacadeInit /\ [][FacadeNext]_vars

\* ------------------------------------------------------------ client.mu
\* the methods of the facade and the fields of the client struct each one
\* reads and writes
Methods_Client ==
    {"LoadConfig", "SaveConfig", "Config", "Connected", "Connect",
     "Disconnect", "InterfaceMetrics"}

Reads(op) ==
    CASE op = "SaveConfig" -> {"config"}
      [] op = "Config" -> {"config"}
      [] op = "Connected" -> {"connected"}
      [] op = "Connect" -> {"config", "configPath", "store"}
      [] op = "Disconnect" -> {"store"}
      [] op = "InterfaceMetrics" -> {"store"}
      [] OTHER -> {}

Writes(op) ==
    CASE op = "LoadConfig" -> {"configPath", "config"}
      [] op = "Connect" -> {"store", "connected"}
      [] op = "Disconnect" -> {"store", "connected"}
      [] OTHER -> {}

\* the methods that begin with c.mu.Lock(); defer c.mu.Unlock()
Locks(op) == op # "Config"

MuInit ==
    /\ ServerInit
    /\ proc = DefaultProc
    /\ hasClient = TRUE
    /\ noDaemon = FALSE
    /\ OptionsIdle
    /\ ClientIdle
    /\ ExtIdle

\* a goroutine of the application calls a method of the facade
Enter(c) ==
    /\ caller[c].pc = "idle"
    /\ \E op \in Methods_Client :
        caller' = [caller EXCEPT ![c] =
                    [op |-> op, pc |-> IF Locks(op) THEN "lock" ELSE "body"]]
    /\ UNCHANGED <<serverVars, workerVars, ghostVars, runVars, modeVars,
                   optVars, facadeVars, pair, cmu, procVars, uiVars>>

\* c.mu.Lock()
Mu_Lock(c) ==
    /\ caller[c].pc = "lock"
    /\ cmu = 0
    /\ cmu' = c
    /\ caller' = [caller EXCEPT ![c].pc = "body"]
    /\ UNCHANGED <<serverVars, workerVars, ghostVars, runVars, modeVars,
                   optVars, facadeVars, pair, procVars, uiVars>>

\* the body of the method has run and the method returns; the deferred
\* Unlock runs in the methods that locked
Leave(c) ==
    /\ caller[c].pc = "body"
    /\ cmu' = IF Locks(caller[c].op) THEN 0 ELSE cmu
    /\ caller' = [caller EXCEPT ![c] = NoCall]
    /\ UNCHANGED <<serverVars, workerVars, ghostVars, runVars, modeVars,
                   optVars, facadeVars, pair, procVars, uiVars>>

MuNext ==
    \E c \in Callers :
        \/ Enter(c)
        \/ Mu_Lock(c)
        \/ Leave(c)

MuSpec == MuInit /\ [][MuNext]_vars

\* ------------------------------------------------------ the daemon process
\* the machines and flags: webmesh group present or not, a socket file left
\* by a previous run or not, requests in flight at shutdown that finish
\* within the grace period or not, closing the listener failing or not
Hosts ==
    {h \in [goos : {"linux", "windows"}, insecure : BOOLEAN,
            group : BOOLEAN, stale : BOOLEAN, drain : BOOLEAN,
            closeErr : BOOLEAN] :
        h.goos = "windows" => (~h.insecure /\ ~h.group /\ ~h.stale)}

\* the umask ListenAndServe sets as it would be if it were 0000 always.
Umask_Open(insecure) == <<0, 0, 0>>

\* the umask ListenAndServe sets
Umask(insecure) == IF insecure THEN <<0, 0, 0>> ELSE <<0, 0, 7>>

\* the mode bind(2) gives a new socket file: 0777 without the umask bits
BindMode(umask) == [i \in 1..3 |-> 7 - umask[i]]

Alive == run.exit = -1

ProcInit ==
    /\ ServerInit
    /\ proc = DefaultProc
    /\ hasClient = FALSE
    /\ noDaemon = FALSE
    /\ OptionsIdle
    /\ ClientIdle
    /\ pair = NoPair
    /\ cmu = 0
    /\ caller = [c \in Callers |-> NoCall]
    /\ host \in Hosts
    /\ sock = [NoSocket EXCEPT !.exists = host.stale]
    /\ run = Started
    /\ UiIdle

ProcFrame ==
    UNCHANGED <<serverVars, workerVars, ghostVars, runVars, modeVars,
                optVars, facadeVars, pair, cmu, caller, host, uiVars>>

\* ListenAndServe sets the process umask
ListenAndServe_Umask ==
    /\ Alive
    /\ run.srv = "start"
    /\ run' = [run EXCEPT !.srv = "remove",
                          !.umask = IF host.goos = "windows" THEN @
                                    ELSE Umask(host.insecure)]
    /\ UNCHANGED sock
    /\ ProcFrame

\* listen: the directory is prepared and any existing socket file removed
listen_Remove ==
    /\ Alive
    /\ run.srv = "remove"
    /\ run' = [run EXCEPT !.srv = "bind"]
    /\ sock' = IF host.goos = "windows" THEN sock
               ELSE [sock EXCEPT !.exists = FALSE]
    /\ ProcFrame

\* listen: net.Listen binds the socket, which fails on an existing file;
\* a failed ListenAndServe ends the process with status 1
listen_Bind ==
    /\ Alive
    /\ run.srv = "bind"
    /\ IF sock.exists
       THEN /\ run' = [run EXCEPT !.srv = "failed", !.exit = 1]
            /\ UNCHANGED sock
       ELSE /\ run' = [run EXCEPT !.srv = "chown"]
            /\ sock' = [exists |-> TRUE, mode |-> BindMode(run.umask),
                        group |-> "root"]
    /\ ProcFrame

\* ListenAndServe gives the socket to the webmesh group if there is one
\* (not on windows, not when insecure); chown of a missing file fails
ListenAndServe_Chown ==
    /\ Alive
    /\ run.srv = "chown"
    /\ IF host.goos # "windows" /\ ~host.insecure /\ host.group
       THEN IF sock.exists
            THEN /\ sock' = [sock EXCEPT !.group = "webmesh"]
                 /\ run' = [run EXCEPT !.srv = "serve"]
            ELSE /\ run' = [run EXCEPT !.srv = "failed", !.exit = 1]
                 /\ UNCHANGED sock
       ELSE /\ run' = [run EXCEPT !.srv = "serve"]
            /\ UNCHANGED sock
    /\ ProcFrame

\* s.Server.Serve(l) registers the listener and serves, unless Shutdown
\* has been called already
ListenAndServe_Serve ==
    /\ Alive
    /\ run.srv = "serve"
    /\ run.main = "wait"
    /\ ~run.listening
    /\ run' = [run EXCEPT !.listening = TRUE]
    /\ UNCHANGED sock
    /\ ProcFrame

\* Serve returns ErrServerClosed after Shutdown was called; the deferred
\* l.Close() of ListenAndServe closes the listener, which unlinks its file
ListenAndServe_Return ==
    /\ Alive
    /\ run.srv = "serve"
    /\ run.main # "wait"
    /\ run' = [run EXCEPT !.srv = "done", !.listening = FALSE]
    /\ sock' = [sock EXCEPT !.exists = FALSE]
    /\ ProcFrame

\* the error Server.Shutdown returns: the context error when the requests
\* in flight outlast the context (only Run's context has a deadline), else
\* the error of closing the listener
ShutdownErr ==
    IF ~host.drain THEN "context deadline exceeded"
    ELSE IF run.listening /\ host.closeErr THEN "close error"
    ELSE "nil"

\* Run or Execute gets the stop signal and calls Shutdown: the registered
\* listener is closed (its file unlinked), the requests in flight are waited
\* for, and on return the deferred os.Remove removes the socket file (not
\* on windows). Execute's context never ends, so there Shutdown does not
\* return while requests are in flight.
Shutdown_Process ==
    /\ Alive
    /\ run.main = "wait"
    /\ host.goos = "windows" => host.drain
    /\ run' = [run EXCEPT !.main = "returned", !.shutErr = ShutdownErr]
    /\ sock' = IF host.goos = "windows"
               THEN IF run.listening /\ ~host.closeErr
                    THEN [sock EXCEPT !.exists = FALSE] ELSE sock
               ELSE [sock EXCEPT !.exists = FALSE]
    /\ ProcFrame

\* Run calls os.Exit(1) when Shutdown returned an error and returns
\* otherwise; Execute logs the error and returns errno 0
Run_Exit ==
    /\ Alive
    /\ run.main = "returned"
    /\ run' = [run EXCEPT !.main = "exited",
                          !.exit = IF host.goos # "windows"
                                      /\ run.shutErr # "nil"
                                   THEN 1 ELSE 0]
    /\ UNCHANGED sock
    /\ ProcFrame

ProcNext ==
    \/ ListenAndServe_Umask
    \/ listen_Remove
    \/ listen_Bind
    \/ ListenAndServe_Chown
    \/ ListenAndServe_Serve
    \/ ListenAndServe_Return
    \/ Shutdown_Process
    \/ Run_Exit

ProcSpec == ProcInit /\ [][ProcNext]_vars

\* ---------------------------------------------------- the two modes side by side
\* the result classes of a facade call
Class(err) ==
    IF err = NilErr THEN "success"
    ELSE IF IsNotConnected(err) THEN "NotConnected"
    ELSE "error"

\* the engine outcomes of one call: of Close on the active handle, of
\* newStore, of Metrics; and of the transport the in-process Disconnect
\* goes on to use
Outcomes ==
    [close : CloseOutcomes, new : NewStoreOutcomes, metrics : BOOLEAN,
     transport : Transports]

\* the error newStore returns for an outcome
NewStoreErr(out) ==
    CASE out = "new_err" -> <<"new store", "new error">>
      [] out = "open_err" -> <<"open store", "open error">>
      [] out = "not_ready" -> Errorf("wait for store ready", DeadlineExceeded)
      [] OTHER -> <<>>

\* one call on the in-process facade whose slot is active (slot = TRUE) or
\* empty: the slot after the call and the error returned
InProcessCall(op, slot, o) ==
    CASE op = "Connect" ->
            IF slot /\ o.close # "ok"
            THEN [slot |-> slot,
                  err |-> WrapError(ErrorString(
                              Errorf("close existing store", CloseError)))]
            ELSE IF o.new = "ok"
            THEN [slot |-> TRUE, err |-> NilErr]
            ELSE [slot |-> FALSE,
                  err |-> WrapError(ErrorString(NewStoreErr(o.new)))]
      [] op = "Disconnect" ->
            IF ~slot
            THEN [slot |-> FALSE, err |-> errNotConnected]
            ELSE IF o.close # "ok"
            THEN [slot |-> TRUE,
                  err |-> WrapError(ErrorString(
                              Errorf("close store", CloseError)))]
            ELSE [slot |-> FALSE,
                  err |-> do(o.transport, returnError(ErrNotConnected))]
      [] OTHER ->
            IF ~slot
            THEN [slot |-> FALSE, err |-> errNotConnected]
            ELSE [slot |-> TRUE,
                  err |-> IF o.metrics THEN NilErr
                          ELSE WrapError("metrics error")]

\* one request handled by the daemon whose slot is active or empty: the slot
\* after the call and the response written
DaemonCall(op, slot, o) ==
    CASE op = "Connect" ->
            IF slot /\ o.close # "ok"
            THEN [slot |-> slot,
                  rsp |-> returnError(Errorf("close existing store",
                                             CloseError))]
            ELSE IF o.new = "ok"
            THEN [slot |-> TRUE, rsp |-> returnOK]
            ELSE [slot |-> FALSE, rsp |-> returnError(NewStoreErr(o.new))]
      [] op = "Disconnect" ->
            IF ~slot
            THEN [slot |-> FALSE, rsp |-> returnError(ErrNotConnected)]
            ELSE IF o.close # "ok"
            THEN [slot |-> TRUE, rsp |-> returnError(CloseError)]
            ELSE [slot |-> FALSE, rsp |-> returnOK]
      [] OTHER ->
            IF ~slot
            THEN [slot |-> FALSE, rsp |-> returnError(ErrNotConnected)]
            ELSE [slot |-> TRUE,
                  rsp |-> IF o.metrics
                          THEN [status |-> 200, body |-> "metrics",
                                msg |-> <<>>]
                          ELSE returnError(Errorf("get interface metrics",
                                                  <<"metrics error">>))]

\* client.connected of the relay facade after a call that returned err:
\* Connect stores true and Disconnect stores false, each only when c.do
\* returned nil; nothing else writes the flag
Connected_Relay(op, err, flag) ==
    CASE op = "Connect" -> IF err = NilErr THEN TRUE ELSE flag
      [] op = "Disconnect" -> IF err = NilErr THEN FALSE ELSE flag
      [] OTHER -> flag

PairInit ==
    /\ ServerInit
    /\ proc = DefaultProc
    /\ hasClient = FALSE
    /\ noDaemon = FALSE
    /\ OptionsIdle
    /\ ClientIdle
    /\ ExtIdle

\* the same call is made on both facades with the same engine outcomes; the
\* relay facade reaches its daemon
PairCall ==
    /\ Len(pair.calls) < MaxRequests
    /\ \E op \in {"Connect", "Disconnect", "InterfaceMetrics"},
          o \in Outcomes :
        LET in == InProcessCall(op, pair.inSlot, o)
            d == DaemonCall(op, pair.dSlot, o)
        IN  pair' = [calls |-> Append(pair.calls, op),
                     inSlot |-> in.slot, dSlot |-> d.slot,
                     dFlag |-> Connected_Relay(op, do("ok", d.rsp),
                                               pair.dFlag),
                     inErr |-> in.err, dErr |-> do("ok", d.rsp),
                     inClass |-> Class(in.err),
                     dClass |-> Class(do("ok", d.rsp))]
    /\ UNCHANGED <<serverVars, workerVars, ghostVars, runVars, modeVars,
                   optVars, facadeVars, cmu, caller, procVars, uiVars>>

PairNext == PairCall

PairSpec == PairInit /\ [][PairNext]_vars

\* -------------------------------------------------------- IsNotConnected
\* the messages of the errors the daemon, the facade and the transport
\* produce
ErrorTexts ==
    {"", "not connected", "close error", "metrics error",
     "close store: close error",
     "close existing store: close error",
     "new store: new error", "open store: open error",
     "wait for store ready: context deadline exceeded",
     "wait for store ready: context canceled",
     "get interface metrics: metrics error",
     "decode request: EOF", "load config: no such file",
     "do request: dial unix: connection refused",
     "bad status: 405 Method Not Allowed, decode error: EOF",
     "bad status: 500 Internal Server Error, decode error: EOF",
     "decode response: EOF"}

\* the error values: nil, and every dynamic type with every message (the
\* sentinel is the errorString with the text "not connected")
ErrorValues ==
    {NilErr} \cup
    [type : {"errorString", "daemonError", "wrapError"}, text : ErrorTexts]

ErrInit ==
    /\ ServerInit
    /\ proc = DefaultProc
    /\ hasClient = FALSE
    /\ noDaemon = FALSE
    /\ OptionsIdle
    /\ ClientIdle
    /\ pair = NoPair
    /\ cmu = 0
    /\ caller = [c \in Callers |-> NoCall]
    /\ host = DefaultHost
    /\ sock = NoSocket
    /\ run = Started
    /\ gui = NoGui
    /\ conf = NoConf
    /\ chk \in [err : ErrorValues, called : {FALSE}, panicked : {FALSE},
                 ret : {FALSE}]

\* IsNotConnected is called with the error value
IsNotConnected_Apply ==
    /\ ~chk.called
    /\ chk' = [chk EXCEPT !.called = TRUE,
                          !.panicked = IsNotConnected_Call(chk.err).panicked,
                          !.ret = IsNotConnected_Call(chk.err).ret]
    /\ UNCHANGED <<serverVars, workerVars, ghostVars, runVars, modeVars,
                   optVars, facadeVars, pair, cmu, caller, procVars, gui,
                   conf>>

ErrNext == IsNotConnected_Apply

ErrSpec == ErrInit /\ [][ErrNext]_vars

\* ------------------------------------------------------ client.LoadConfig
\* the paths LoadConfig is called with, and those holding a config that
\* can be read and parsed
ConfigFiles ==
    {"default.yaml", "other.yaml", "missing.yaml", "malformed.yaml"}
Loadable == {"default.yaml", "other.yaml"}

\* config.FromFile: the config read from the file (named by its path), or
\* nil and an error
FromFile(path) ==
    IF path \in Loadable
    THEN [config |-> path, err |-> FALSE]
    ELSE [config |-> "nil", err |-> TRUE]

ConfInit ==
    /\ ServerInit
    /\ proc = DefaultProc
    /\ hasClient = TRUE
    /\ noDaemon \in BOOLEAN
    /\ OptionsIdle
    /\ ClientIdle
    /\ ExtIdle

ConfFrame ==
    UNCHANGED <<serverVars, workerVars, ghostVars, runVars, modeVars,
                optVars, facadeVars, pair, cmu, caller, procVars, gui, chk>>

\* client.LoadConfig: the path is stored first, then whatever FromFile
\* returned is stored as the config, and FromFile's error is returned
LoadConfig ==
    /\ conf.loads < MaxLoads
    /\ \E path \in ConfigFiles :
         conf' = [conf EXCEPT
                    !.configPath = path,
                    !.config = FromFile(path).config,
                    !.err = FromFile(path).err,
                    !.loads = @ + 1,
                    !.before = [configPath |-> conf.configPath,
                                config |-> conf.config],
                    !.sent = "none"]
    /\ ConfFrame

\* client.Connect reads the configuration: in-process it hands c.config to
\* newStore, else it sends c.configPath as the request's ConfigFile for
\* the daemon to load
Connect_Config ==
    /\ conf.sent = "none"
    /\ conf' = [conf EXCEPT !.sent = IF noDaemon THEN conf.config
                                     ELSE conf.configPath]
    /\ ConfFrame

ConfNext ==
    \/ LoadConfig
    \/ Connect_Config

ConfSpec == ConfInit /\ [][ConfNext]_vars

\* ------------------------------------------------------ App.onConnectChange
GuiInit ==
    /\ ServerInit
    /\ proc = DefaultProc
    /\ hasClient = TRUE
    /\ noDaemon = FALSE
    /\ OptionsIdle
    /\ ClientIdle
    /\ ExtIdle

GuiFrame ==
    UNCHANGED <<serverVars, workerVars, ghostVars, runVars, modeVars,
                optVars, facadeVars, pair, cmu, caller, procVars, conf, chk>>

\* the connect tasks that have not returned from doConnect
InFlight == {k \in Connects : gui.task[k] \in {"spawned", "bound"}}

\* connectSwitch.Tapped: the user moves the switch; the binding queues a
\* call of the listener
Tapped ==
    /\ gui.queued < MaxQueued
    /\ gui.switch = "Disconnected" => gui.next <= MaxConnects
    /\ gui' = [gui EXCEPT
                  !.switch = IF gui.switch = "Disconnected"
                             THEN "Connecting" ELSE "Disconnected",
                  !.queued = @ + 1]
    /\ GuiFrame

\* the listener, case switchConnecting: sets connecting and starts the
\* background task; the task has not yet made its context
onConnectChange_Connecting ==
    /\ gui.queued > 0
    /\ gui.switch = "Connecting"
    /\ gui.next <= MaxConnects
    /\ gui' = [gui EXCEPT !.queued = @ - 1,
                          !.connecting = TRUE,
                          !.task[gui.next] = "spawned",
                          !.next = @ + 1]
    /\ GuiFrame

\* the listener, case switchConnected
onConnectChange_Connected ==
    /\ gui.queued > 0
    /\ gui.switch = "Connected"
    /\ gui' = [gui EXCEPT !.queued = @ - 1]
    /\ GuiFrame

\* the listener, case switchDisconnected: while connecting is set it calls
\* whatever app.cancelConnect holds at that moment and returns; else it
\* starts the disconnect task if connected
onConnectChange_Disconnected ==
    /\ gui.queued > 0
    /\ gui.switch = "Disconnected"
    /\ gui' =
          IF gui.connecting
          THEN [gui EXCEPT
                  !.queued = @ - 1,
                  !.cancelled = @ \cup ({gui.cancelConnect} \cap Connects),
                  !.cancels = @ \cup {[inflight |-> k,
                                       invoked |-> gui.cancelConnect] :
                                      k \in InFlight}]
          ELSE [gui EXCEPT !.queued = @ - 1,
                           !.disc = @ \/ gui.connected]
    /\ GuiFrame

\* the background task: ctx, app.cancelConnect = context.WithCancel(...)
task_WithCancel(k) ==
    /\ gui.task[k] = "spawned"
    /\ gui' = [gui EXCEPT !.task[k] = "bound", !.cancelConnect = k]
    /\ GuiFrame

\* the background task: doConnect(ctx, ...) returns, with an error if the
\* context was cancelled
task_doConnect(k) ==
    /\ gui.task[k] = "bound"
    /\ \E ok \in BOOLEAN :
         gui' = [gui EXCEPT !.task[k] = IF ok /\ k \notin gui.cancelled
                                        THEN "ok" ELSE "err"]
    /\ GuiFrame

\* the background task after doConnect: on an error the switch is set back
\* to Disconnected, else to Connected and connected is stored; the deferred
\* connecting.Store(false) runs as the task returns
task_Return(k) ==
    /\ gui.task[k] \in {"ok", "err"}
    /\ gui.queued < MaxQueued
    /\ gui' = [gui EXCEPT
                  !.task[k] = "done",
                  !.queued = IF gui.switch = (IF gui.task[k] = "ok"
                                              THEN "Connected"
                                              ELSE "Disconnected")
                             THEN @ ELSE @ + 1,
                  !.switch = IF gui.task[k] = "ok" THEN "Connected"
                             ELSE "Disconnected",
                  !.connected = IF gui.task[k] = "ok" THEN TRUE ELSE @,
                  !.shown = IF gui.task[k] = "ok" THEN @ \cup {k} ELSE @,
                  !.connecting = FALSE]
    /\ GuiFrame

\* the disconnect task started by the listener: doDisconnect, then
\* connected.Store(false)
task_doDisconnect ==
    /\ gui.disc
    /\ gui' = [gui EXCEPT !.disc = FALSE, !.connected = FALSE]
    /\ GuiFrame

GuiNext ==
    \/ Tapped
    \/ onConnectChange_Connecting
    \/ onConnectChange_Connected
    \/ onConnectChange_Disconnected
    \/ \E k \in Connects : task_WithCancel(k)
    \/ \E k \in Connects : task_doConnect(k)
    \/ \E k \in Connects : task_Return(k)
    \/ task_doDisconnect

GuiSpec == GuiInit /\ [][GuiNext]_vars

\* the connect timeout of worker r is running: context.WithTimeout is
\* called after st.Open() has returned and is cancelled when newStore returns
TimeoutArmed(r) == pc[r] \in {"conn_wait", "conn_cleanup"}

\* ------------------------------------------------------------------ claims
InHandler(r) == pc[r] \notin {"idle", "lock"}

\* the request answered last was for `path` and reached its handler
Served(path) == last.req.path = path /\ last.resp.status \notin {0, 405}

Made(calls, call) == \E i \in DOMAIN calls : calls[i] = call

OpenEngines == {h \in Handles : engine[h] = "open"}

\* C1: the session slot holds at most one handle and at most one engine
\* opened by the daemon is open (opened and not yet closed) at any time.
SingleSession ==
    /\ store \in {Nil} \cup Handles
    /\ Cardinality(OpenEngines) <= 1

ClosedBeforeOpen(calls, old) ==
    \A j \in DOMAIN calls :
        (calls[j][1] = "Open" /\ old # Nil) =>
            /\ \E i \in 1..(j - 1) : calls[i] = <<"Close", old, "ok">>
            /\ engine[old] = "closed"

\* C2: when Connect finds a handle in the slot, Close on it has returned
\* successfully before Open is invoked on the new engine, and the old engine
\* is closed in every state in which the new one has been opened.
ReplaceOrdering ==
    /\ \A r \in Workers : ClosedBeforeOpen(ops[r], slotAtLock[r])
    /\ ClosedBeforeOpen(last.ops, last.slotAtLock)

ReplaceOrderingWitness ==
    \E r \in Workers :
        /\ pc[r] = "conn_wait"
        /\ slotAtLock[r] # Nil
        /\ engine[cur[r]] = "open"

DisconnectIdle ==
    (Served("/disconnect") /\ last.slotAtLock = Nil) =>
        /\ last.resp = [status |-> 500, body |-> "message",
                        msg |-> <<"not connected">>]
        /\ last.ops = <<>>
        /\ last.slotAtReturn = Nil

\* an idle Disconnect was answered and the next one is in its handler
DisconnectIdleWitness ==
    /\ Served("/disconnect")
    /\ last.slotAtLock = Nil
    /\ last.resp.msg = ErrNotConnected
    /\ \E r \in Workers : pc[r] = "disc_body" /\ store = Nil

\* C5: when the opened engine is not ready before a positive connect timeout
\* elapses, Connect answers the wrapped timeout error, Close was invoked on
\* the new engine, and the slot is empty at return, whatever Close returned.
TimedOut ==
    /\ Served("/connect")
    /\ Made(last.ops, <<"Open", last.cur, "ok">>)
    /\ last.req.timeout > 0
    /\ last.wait.delay >= last.req.timeout
    /\ ~last.wait.gone

TimeoutCleanup ==
    TimedOut =>
        /\ last.resp = [status |-> 500, body |-> "message",
                        msg |-> <<"wait for store ready",
                                  "context deadline exceeded">>]
        /\ \E out \in CloseOutcomes :
               last.ops[Len(last.ops)] = <<"Close", last.cur, out>>
        /\ closeCalls[last.cur] = 1
        /\ last.slotAtReturn = Nil

TimeoutCleanupWitness ==
    /\ TimedOut
    /\ Made(last.ops, <<"Close", last.cur, "err_open">>)

\* C6: a Connect carrying connectTimeout <= 0 waits under the 30 second
\* default, so an engine ready after a positive delay below 30 seconds
\* yields a successful Connect.
DefaultTimeoutApplied ==
    (/\ Served("/connect")
     /\ Made(last.ops, <<"Open", last.cur, "ok">>)
     /\ last.req.timeout <= 0
     /\ last.wait.delay > 0
     /\ last.wait.delay < DefaultConnectTimeout
     /\ ~last.wait.gone) =>
        /\ last.resp.status = 200
        /\ last.slotAtReturn = last.cur

\* C7: Metrics handled while the slot is empty answers a non-200 status with
\* the message exactly "not connected", makes no engine call and leaves the
\* slot empty.
MetricsIdle ==
    (Served("/interface-metrics") /\ last.slotAtLock = Nil) =>
        /\ last.resp.status # 200
        /\ last.resp.body = "message"
        /\ last.resp.msg = <<"not connected">>
        /\ last.ops = <<>>
        /\ last.slotAtReturn = Nil

\* Metrics on a slot emptied after an earlier engine was closed
MetricsIdleWitness ==
    /\ Served("/interface-metrics")
    /\ last.slotAtLock = Nil
    /\ last.resp.msg = ErrNotConnected
    /\ \E h \in Handles : engine[h] = "closed"

\* C8: at most one handler is between its lock acquisition and its return;
\* it is the lock holder, and the slot value it read at the lock is the one
\* the last returned handler left; while no handler runs the slot keeps that
\* value, and it is untouched during a Connect's ready-wait.
HandlerMutex ==
    /\ Cardinality({r \in Workers : InHandler(r)}) <= 1
    /\ \A r \in Workers : InHandler(r) => (mu = r /\ slotAtLock[r] = settled)
    /\ (mu = 0) => (store = settled)
    /\ \A r \in Workers : pc[r] = "conn_wait" => store = slotAtLock[r]

HandlerMutexWitness ==
    \E r1, r2 \in Workers :
        /\ pc[r1] = "conn_wait"
        /\ pc[r2] = "lock"
        /\ req[r2].path = "/disconnect"
        /\ store # Nil

\* C9: NewClient selects in-process mode exactly when the process has full
\* privilege (root on POSIX, SYSTEM on Windows) and the socket path does not
\* exist.
HasFullPrivilege(p) ==
    IF p.goos = "windows" THEN p.userName = "SYSTEM" ELSE p.uid = 0

ModeSelection ==
    (hasClient /\ ~proc.userErr) =>
        (noDaemon = (HasFullPrivilege(proc) /\ proc.statErr = "ENOENT"))

\* C10: when Connect finds a handle in the slot and Close on it returns an
\* error, Connect answers "close existing store: ...", creates and opens no
\* engine, and the slot still holds the old handle.
CloseFailed ==
    /\ Served("/connect")
    /\ last.slotAtLock # Nil
    /\ \E out \in CloseOutcomes \ {"ok"} :
           Made(last.ops, <<"Close", last.slotAtLock, out>>)

CloseFailureAbort ==
    CloseFailed =>
        /\ last.resp = [status |-> 500, body |-> "message",
                        msg |-> <<"close existing store", "close error">>]
        /\ Len(last.ops) = 1
        /\ last.cur = Nil
        /\ last.slotAtReturn = last.slotAtLock

CloseFailureAbortWitness ==
    /\ CloseFailed
    /\ store = last.slotAtLock
    /\ engine[store] = "open"

\* C11: when Connect closed the old handle successfully and the new engine
\* then failed to be created, opened or become ready, the slot is empty when
\* Connect returns.
ReplaceFailed ==
    /\ Served("/connect")
    /\ last.slotAtLock # Nil
    /\ Made(last.ops, <<"Close", last.slotAtLock, "ok">>)
    /\ last.resp.status # 200

CloseThenOpenAsymmetry ==
    ReplaceFailed =>
        /\ last.slotAtReturn = Nil
        /\ last.resp.status = 500
        /\ last.resp.msg[1] \in {"new store", "open store",
                                 "wait for store ready"}

\* the replace failed at store.New, and the daemon is left disconnected
CloseThenOpenWitness ==
    /\ ReplaceFailed
    /\ last.resp.msg[1] = "new store"
    /\ store = Nil
    /\ mu = 0

\* C12: a Connect that fails at decoding the body or loading the config file
\* leaves the slot as it found it and makes no engine call.
FailedEarly ==
    /\ Served("/connect")
    /\ last.resp.status = 500
    /\ last.resp.msg[1] \in {"decode request", "load config"}

EarlyFailureFrame ==
    FailedEarly =>
        /\ last.slotAtReturn = last.slotAtLock
        /\ last.ops = <<>>
        /\ last.cur = Nil

\* the config could not be loaded while a connection was active
EarlyFailureWitness ==
    /\ FailedEarly
    /\ last.resp.msg[1] = "load config"
    /\ last.slotAtLock # Nil
    /\ store = last.slotAtLock
    /\ engine[store] = "open"
    /\ closeCalls[store] = 0

\* C13: a Disconnect that finds a handle calls Close on it once; it clears
\* the slot and answers OK exactly when Close succeeds, and otherwise
\* answers the close error with the same handle still in the slot.
DisconnectActive ==
    (Served("/disconnect") /\ last.slotAtLock # Nil) =>
        \E out \in CloseOutcomes :
            /\ last.ops = <<<<"Close", last.slotAtLock, out>>>>
            /\ IF out = "ok"
               THEN /\ last.resp = [status |-> 200, body |-> "ok",
                                    msg |-> <<>>]
                    /\ last.slotAtReturn = Nil
               ELSE /\ last.resp = [status |-> 500, body |-> "message",
                                    msg |-> <<"close error">>]
                    /\ last.slotAtReturn = last.slotAtLock

DisconnectActiveWitness ==
    /\ Served("/disconnect")
    /\ last.slotAtLock # Nil
    /\ last.resp.status = 500
    /\ store = last.slotAtLock

\* C14: every handle that has been in the session slot has Close invoked on
\* it at most once while the daemon runs and exactly once by the time the
\* daemon process has exited.
HandleClosedExactlyOnce ==
    \A h \in installed :
        /\ closeCalls[h] <= 1
        /\ phase = "exited" => closeCalls[h] = 1

\* C15: when the slot held a handle at the time Shutdown was called, Close
\* has been invoked on that handle by the time the daemon process has exited.
ShutdownClosesSession ==
    (phase = "exited" /\ atShutdown.slot # Nil) =>
        closeCalls[atShutdown.slot] > atShutdown.calls

\* the request `rq` arrives in this step
Arrived(rq) ==
    /\ budget' = budget + 1
    /\ \/ pc' = pc /\ last'.req = rq
       \/ \E r \in Workers : pc[r] = "idle" /\ pc'[r] = "lock" /\ req'[r] = rq

\* the arriving request is answered in the same step with a non-200 status,
\* no handler is entered and the lock, the engines and the slot are untouched
Rejected ==
    /\ pc' = pc
    /\ last'.resp.status \notin {0, 200}
    /\ last'.ops = <<>>
    /\ UNCHANGED serverVars

\* C16 as stated: a non-POST request to /connect or /disconnect and a
\* non-GET request to /interface-metrics are rejected without the lock, an
\* engine call or a change of the slot.
VerbsAllEnforced ==
    [][\A path \in Paths, method \in Methods :
        (/\ Arrived([path |-> path, method |-> method, timeout |-> 0])
         /\ IF path = "/interface-metrics"
            THEN method # "GET" ELSE method # "POST")
        => Rejected]_vars

\* C16: a non-POST request to /connect or /disconnect is rejected with 405
\* without the lock, an engine call or a change of the slot; a request to
\* /interface-metrics reaches its handler whatever its method.
VerbEnforcement ==
    [][\A path \in Paths, method \in Methods :
        Arrived([path |-> path, method |-> method, timeout |-> 0]) =>
            IF path \in {"/connect", "/disconnect"} /\ method # "POST"
            THEN Rejected /\ last'.resp.status = 405
            ELSE \E r \in Workers :
                    /\ pc'[r] = "lock"
                    /\ req'[r].path = path
                    /\ req'[r].method = method]_vars

\* a GET /disconnect was rejected while a connection was active
VerbEnforcementWitness ==
    /\ last.req = [path |-> "/disconnect", method |-> "GET", timeout |-> 0]
    /\ last.resp.status = 405
    /\ last.ops = <<>>
    /\ store # Nil
    /\ engine[store] = "open"
    /\ mu = 0

\* C17: every non-200 response of the daemon is decoded by client.do into a
\* daemonError that carries the message the daemon wrote.
ErrorBodiesDecodable ==
    last.resp.status \notin {0, 200} =>
        /\ last.resp.body = "message"
        /\ do("ok", last.resp) = daemonError(ErrorString(last.resp.msg))

\* C18: the error a relay client gets from Disconnect or InterfaceMetrics
\* against an idle daemon is recognized by IsNotConnected, and no other
\* error the client can get (any other daemon error, a rejected method, a
\* transport failure) is.
IdleAnswer ==
    /\ last.req.path \in {"/disconnect", "/interface-metrics"}
    /\ Served(last.req.path)
    /\ last.slotAtLock = Nil

NotConnectedRoundTrip ==
    last.resp.status # 0 =>
        \A t \in Transports :
            LET err == do(t, last.resp) IN
            /\ (IdleAnswer /\ t = "ok") => IsNotConnected(err)
            /\ (err # NilErr /\ IsNotConnected(err)) =>
                    /\ IdleAnswer /\ t = "ok"
                    /\ err.text = "not connected"
            /\ (err # NilErr /\ err.text # "not connected") =>
                    ~IsNotConnected(err)

\* an idle Disconnect was answered and its error went through the wire
NotConnectedRoundTripWitness ==
    /\ last.req.path = "/disconnect"
    /\ IdleAnswer
    /\ last.resp = [status |-> 500, body |-> "message",
                    msg |-> <<"not connected">>]
    /\ do("ok", last.resp) = [type |-> "daemonError", text |-> "not connected"]
    /\ do("ok", last.resp) # errNotConnected

\* both fields of a credential type are set on the user
HasBasic(u) == u.BasicAuthPassword # "" /\ u.BasicAuthUsername # ""
HasLDAP(u) == u.LDAPPassword # "" /\ u.LDAPUsername # ""
HasMTLS(u) == u.ClientKeyData # "" /\ u.ClientCertificateData # ""

Attached(auth) == {t \in {"Basic", "LDAP", "MTLS"} : auth[t] # {}}

\* C19 as stated: the options carry at most one credential type, chosen by
\* precedence basic auth, then LDAP, then mTLS.
CredentialPrecedence ==
    built =>
        /\ Cardinality(Attached(storeOpts.Auth)) <= 1
        /\ Attached(storeOpts.Auth) =
              IF HasBasic(user) THEN {"Basic"}
              ELSE IF HasLDAP(user) THEN {"LDAP"}
              ELSE IF HasMTLS(user) THEN {"MTLS"}
              ELSE {}

\* C19: the options carry every credential type both of whose fields are
\* set on the user, each with the user's values, and no other type.
CredentialAttachment ==
    built =>
        /\ Attached(storeOpts.Auth) =
              {t \in {"Basic"} : HasBasic(user)}
              \cup {t \in {"LDAP"} : HasLDAP(user)}
              \cup {t \in {"MTLS"} : HasMTLS(user)}
        /\ HasBasic(user) =>
              storeOpts.Auth.Basic = {[Username |-> user.BasicAuthUsername,
                                       Password |-> user.BasicAuthPassword]}
        /\ HasLDAP(user) =>
              storeOpts.Auth.LDAP = {[Username |-> user.LDAPUsername,
                                      Password |-> user.LDAPPassword]}
        /\ HasMTLS(user) =>
              storeOpts.Auth.MTLS = {[CertData |-> user.ClientCertificateData,
                                      KeyData |-> user.ClientKeyData]}

\* a user with basic-auth and LDAP fields gets both credentials attached
CredentialAttachmentWitness ==
    /\ built
    /\ HasBasic(user) /\ HasLDAP(user) /\ ~HasMTLS(user)
    /\ Attached(storeOpts.Auth) = {"Basic", "LDAP"}

\* C20: in in-process mode no facade call issues a request over the socket,
\* and a Disconnect that closed the active connection successfully returns
\* no error and leaves the facade's slot empty.
InProcessNoSocket ==
    (hasClient /\ noDaemon /\ cres.op # "none") =>
        /\ cres.sent = 0
        /\ (cres.op = "Disconnect" /\ cres.closed) =>
                (cres.err = NilErr /\ cstore = Nil)

\* C27: when Connect returns, every engine it opened successfully is the
\* handle in the session slot or has had Close invoked on it by this Connect.
NoLeakedEngine ==
    Served("/connect") =>
        \A h \in Handles :
            Made(last.ops, <<"Open", h, "ok">>) =>
                \/ last.slotAtReturn = h
                \/ \E out \in CloseOutcomes : Made(last.ops, <<"Close", h, out>>)

\* the client went away during the ready-wait and the new engine was closed
NoLeakedEngineWitness ==
    /\ Served("/connect")
    /\ last.wait.gone
    /\ Made(last.ops, <<"Open", last.cur, "ok">>)
    /\ Made(last.ops, <<"Close", last.cur, "ok">>)
    /\ engine[last.cur] = "closed"
    /\ last.slotAtReturn = Nil

\* C28: while a Connect is inside the engine's Open call, its connect timeout
\* is running, so the timeout can end a Connect whose Open does not return.
OpenUnderTimeout ==
    \A r \in Workers : pc[r] = "conn_open" => TimeoutArmed(r)

\* the client abandoned a Connect whose engine opened and would have been
\* ready within a positive timeout
Abandoned ==
    /\ Served("/connect")
    /\ Made(last.ops, <<"Open", last.cur, "ok">>)
    /\ last.wait.gone
    /\ last.req.timeout > 0
    /\ last.wait.delay < last.req.timeout

\* C29 as stated: a client abandoning the request during the ready-wait does
\* not make the daemon close the new engine or fail the Connect.
NoMidRequestCancellation ==
    Abandoned =>
        /\ last.resp.status = 200
        /\ last.slotAtReturn = last.cur
        /\ closeCalls[last.cur] = 0

\* C29: a client abandoning the request during the ready-wait makes the
\* daemon invoke Close on the new engine, leave the slot empty and answer
\* the wrapped cancellation error; a Connect that is not abandoned and whose
\* engine is ready within a positive timeout succeeds.
MidRequestCancellation ==
    /\ Abandoned =>
        /\ last.resp = [status |-> 500, body |-> "message",
                        msg |-> <<"wait for store ready", "context canceled">>]
        /\ \E out \in CloseOutcomes :
               last.ops[Len(last.ops)] = <<"Close", last.cur, out>>
        /\ last.slotAtReturn = Nil
    /\ (/\ Served("/connect")
        /\ Made(last.ops, <<"Open", last.cur, "ok">>)
        /\ ~last.wait.gone
        /\ last.req.timeout > 0
        /\ last.wait.delay < last.req.timeout) =>
        /\ last.resp.status = 200
        /\ last.slotAtReturn = last.cur

MidRequestCancellationWitness ==
    /\ Abandoned
    /\ last.resp.msg = <<"wait for store ready", "context canceled">>
    /\ closeCalls[last.cur] = 1
    /\ store = Nil

\* C30: every request that has reached its handler, blocked on the session
\* lock or holding it, gets its response and the lock is released: the
\* requests being finitely many, the daemon ends up with every handler
\* returned and the lock free, and stays so.
LockProgress ==
    <>[](mu = 0 /\ \A r \in Workers : pc[r] = "idle")

\* a Disconnect is blocked on the lock while a Connect waits for its engine
LockProgressWitness ==
    \E r, q \in Workers :
        /\ pc[r] = "lock"
        /\ req[r].path = "/disconnect"
        /\ mu = q
        /\ pc[q] = "conn_wait"

\* C23: in relay mode every Connect, Disconnect and InterfaceMetrics call
\* issues exactly one request and returns an error exactly when the transport
\* failed, the status was not 200 or the body could not be decoded.
RelayOneRequest ==
    (hasClient /\ ~noDaemon /\ cres.op # "none") =>
        /\ cres.sent = 1
        /\ cres.err # NilErr <=>
              \/ cres.transport # "ok"
              \/ cres.rsp.status # 200
              \/ ~Decodable(cres.rsp.body)

\* a relayed Connect was answered 500 by the daemon and returned its message
RelayOneRequestWitness ==
    /\ hasClient /\ ~noDaemon
    /\ cres.op = "Connect"
    /\ cres.sent = 1
    /\ cres.transport = "ok"
    /\ cres.rsp.status = 500
    /\ cres.err = [type |-> "daemonError",
                   text |-> "wait for store ready: context deadline exceeded"]
    /\ ~connected

\* C21: after every sequence of calls made on both facades with the same
\* engine outcomes, the last call returned the same result class on both and
\* both slots are in the same state.
ModeEquivalence ==
    /\ pair.inClass = pair.dClass
    /\ pair.inSlot = pair.dSlot

\* C22: every facade method holds the facade lock while its body reads or
\* writes the client's state, so no two callers are in bodies of which one
\* writes a field the other reads or writes.
FacadeSerialized ==
    /\ \A c \in Callers :
          (caller[c].pc = "body"
              /\ Reads(caller[c].op) \cup Writes(caller[c].op) # {}) => cmu = c
    /\ \A c, d \in Callers :
          (c # d /\ caller[c].pc = "body" /\ caller[d].pc = "body") =>
              Writes(caller[c].op)
                  \cap (Reads(caller[d].op) \cup Writes(caller[d].op)) = {}

\* C24: a socket the daemon has created has no world permission bit exactly
\* when insecure is off (0770, and 0777 when insecure); once ListenAndServe
\* serves with insecure off the socket's group is webmesh if that group
\* exists, and without the group ListenAndServe does not fail.
SocketPermissions ==
    /\ (host.goos # "windows" /\ sock.exists
            /\ run.srv \in {"chown", "serve"}) =>
          /\ (sock.mode[3] = 0) <=> ~host.insecure
          /\ sock.mode = IF host.insecure THEN <<7, 7, 7>> ELSE <<7, 7, 0>>
          /\ (run.listening /\ ~host.insecure /\ host.group) =>
                  sock.group = "webmesh"
          /\ (run.listening /\ (host.insecure \/ ~host.group)) =>
                  sock.group = "root"
    /\ (~host.group /\ run.main = "wait") => run.srv # "failed"

\* the daemon serves on a 0770 socket of group webmesh
SocketPermissionsWitness ==
    /\ host.goos = "linux" /\ ~host.insecure /\ host.group
    /\ run.listening
    /\ sock.exists
    /\ sock.mode = <<7, 7, 0>>
    /\ sock.group = "webmesh"

\* C25: when listen binds there is no file at the socket path, and once
\* Shutdown has returned there is no socket file (POSIX).
SocketLifecycle ==
    host.goos # "windows" =>
        /\ run.srv = "bind" => ~sock.exists
        /\ run.shutErr # "none" => ~sock.exists

\* C26: when Shutdown has returned an error and the process has ended, its
\* exit status is not zero.
FatalShutdown ==
    (~Alive /\ run.shutErr \notin {"none", "nil"}) => run.exit # 0

\* ------------------------------------------------------------------ C31
\* C31 as stated: for every combination of the cluster's settings the
\* options built carry Insecure, CAData, InsecureSkipVerify and
\* VerifyChainOnly each equal to the corresponding cluster field.
TLSOneToOne ==
    built =>
        /\ storeOpts.TLS.Insecure = cluster.Insecure
        /\ storeOpts.TLS.CAData = cluster.CertificateAuthorityData
        /\ storeOpts.TLS.InsecureSkipVerify = cluster.TLSSkipVerify
        /\ storeOpts.TLS.VerifyChainOnly = cluster.TLSVerifyChainOnly

\* C31 amended: Insecure always equals the cluster's insecure setting; for
\* a cluster that is not insecure CAData, InsecureSkipVerify and
\* VerifyChainOnly equal the cluster's fields one for one; for an insecure
\* cluster the three are left at their zero values whatever the cluster
\* says.
TLSPolicyMapping ==
    built =>
        /\ storeOpts.TLS.Insecure = cluster.Insecure
        /\ ~cluster.Insecure =>
              /\ storeOpts.TLS.CAData = cluster.CertificateAuthorityData
              /\ storeOpts.TLS.InsecureSkipVerify = cluster.TLSSkipVerify
              /\ storeOpts.TLS.VerifyChainOnly = cluster.TLSVerifyChainOnly
        /\ cluster.Insecure =>
              /\ storeOpts.TLS.CAData = ""
              /\ ~storeOpts.TLS.InsecureSkipVerify
              /\ ~storeOpts.TLS.VerifyChainOnly

TLSPolicyMappingWitness ==
    /\ built
    /\ cluster.Insecure
    /\ cluster.CertificateAuthorityData = "CA"
    /\ cluster.TLSSkipVerify
    /\ storeOpts.TLS.Insecure
    /\ storeOpts.TLS.CAData = ""

\* ------------------------------------------------------------------ C32
\* C32: whenever the listener handles a move of the switch to Disconnected
\* while a connect task is in flight, the cancel function it invokes is the
\* one bound to that task's context, and that task never moves the switch
\* to Connected.
UICancelAborts ==
    \A c \in gui.cancels :
        /\ c.invoked = c.inflight
        /\ c.inflight \notin gui.shown

\* ------------------------------------------------------------------ C33
\* C33: with one relay client and a daemon that stays up, after every
\* completed facade call Connected() is true exactly when the daemon's
\* session slot holds a handle.
ConnectedTracksSession ==
    pair.calls # <<>> => (pair.dFlag <=> pair.dSlot)

\* ------------------------------------------------------------------ C34
\* C34: in in-process mode, after every completed facade call the
\* connected flag is true exactly when the facade's own store slot is
\* non-nil.
FlagMatchesSlot ==
    (hasClient /\ noDaemon /\ ncalls > 0) => (connected <=> cstore # Nil)

FlagMatchesSlotWitness ==
    /\ hasClient
    /\ noDaemon
    /\ ncalls > 1
    /\ cres.op = "Connect"
    /\ cres.closed
    /\ cres.err # NilErr
    /\ ~connected
    /\ cstore = Nil

\* ------------------------------------------------------------------ C35
\* C35: when the last LoadConfig returned an error, the facade's config and
\* config path are what they were before that call, and a Connect made
\* afterwards uses them.
FailedLoadKeepsConfig ==
    conf.err =>
        /\ conf.configPath = conf.before.configPath
        /\ conf.config = conf.before.config
        /\ conf.sent \in {"none", conf.before.configPath, conf.before.config}

\* ------------------------------------------------------------------ C36
\* C36: for every error value, nil included, a call of IsNotConnected
\* returns a boolean without panicking, and returns false for nil.
IsNotConnectedTotal ==
    chk.called =>
        /\ ~chk.panicked
        /\ chk.err = NilErr => ~chk.ret

====
